---- MODULE Spec2Model ----
(***************************************************************************)
(* Model of client/http/client.go of flow-go-sdk: the REST client facade.  *)
(* A Client holds one handler reference; every facade method normalises    *)
(* its typed arguments to strings/bytes, invokes one handler operation,    *)
(* checks the error and converts the reply.  Several callers (goroutines)  *)
(* use one Client concurrently; the handler call is the only blocking      *)
(* point of a method, so a method is one step up to the handler call and   *)
(* one step from the handler's reply to the return (or panic).             *)
(*                                                                         *)
(* A Go string the code formats or parses is a sequence of one-character   *)
(* strings, so that fmt.Sprintf("%d", n) and Identifier.String() are       *)
(* computed; a string the code only passes through (an event type, a       *)
(* status name) is a TLA+ string.                                          *)
(***************************************************************************)
EXTENDS Integers, Sequences, FiniteSets, TLC

\* ------------------------------------------------------------------ bounds

\* Longest sequence the handler returns or a caller passes (blocks of a
\* by-height reply, script arguments, block identifiers of an event query).
MaxLen == 2

\* ------------------------------------------------------------- Go strings

EmptyString == << >>

Digits == <<"0", "1", "2", "3", "4", "5", "6", "7", "8", "9">>

HexDigits == <<"0", "1", "2", "3", "4", "5", "6", "7",
               "8", "9", "a", "b", "c", "d", "e", "f">>

\* fmt.Sprintf("%d", n) for an unsigned n: the decimal digits, most
\* significant first, no leading zero except for 0 itself.
RECURSIVE Sprintf_d(_)
Sprintf_d(n) ==
    IF n < 10 THEN <<Digits[n + 1]>>
    ELSE Sprintf_d(n \div 10) \o <<Digits[(n % 10) + 1]>>

\* hex.EncodeToString: two lower-case hex digits per byte.
HexEncode(bytes) ==
    [i \in 1..(2 * Len(bytes)) |->
        IF i % 2 = 1 THEN HexDigits[(bytes[(i + 1) \div 2] \div 16) + 1]
        ELSE HexDigits[(bytes[i \div 2] % 16) + 1]]

IsDecimal(s) == Len(s) > 0 /\ \A i \in 1..Len(s) : \E d \in 1..10 : Digits[d] = s[i]

DigitValue(ch) == (CHOOSE d \in 1..10 : Digits[d] = ch) - 1

RECURSIVE ParseDecimal(_)
ParseDecimal(s) ==
    IF Len(s) = 0 THEN 0
    ELSE 10 * ParseDecimal(SubSeq(s, 1, Len(s) - 1)) + DigitValue(s[Len(s)])

IsHex(s) ==
    Len(s) % 2 = 0 /\ \A i \in 1..Len(s) : \E d \in 1..16 : HexDigits[d] = s[i]

HexValue(ch) == (CHOOSE d \in 1..16 : HexDigits[d] = ch) - 1

HexDecode(s) ==
    [i \in 1..(Len(s) \div 2) |-> 16 * HexValue(s[2 * i - 1]) + HexValue(s[2 * i])]

\* ------------------------------------------------------------ Go values

SeqsUpTo(S, n) == UNION {[1..k -> S] : k \in 0..n}

\* A nil pointer, nil interface value or nil slice returned as a result.
Nil == [kind |-> "nil"]

\* A nil error.
NoError == [kind |-> "nil"]

\* The errors a handler operation reports (transport or decoding failures).
HandlerErrors == {[kind |-> "handler", code |-> "transport"],
                  [kind |-> "handler", code |-> "decode"]}

\* The error a conversion routine of package convert reports.
ConvertError(fn) == [kind |-> "convert", fn |-> fn]

\* How a facade method ends: a return of (value, error), or a panic.
Return(v, e) == [kind |-> "return", val |-> v, err |-> e]

Panic(msg) == [kind |-> "panic", msg |-> msg]

\* A method with the single result `error` has no value to return.
NoValue == [kind |-> "novalue"]

\* A Go slice: nil, or made with elements.
NilSlice == [isNil |-> TRUE, elems |-> << >>]

MakeSlice(s) == [isNil |-> FALSE, elems |-> s]

\* ------------------------------------------------------- caller's inputs

\* flow.Identifier values (byte arrays, shortened to two bytes).
Identifiers == {<<0, 1>>, <<171, 205>>}

\* flow.Address values (byte arrays, shortened to one byte).
Addresses == {<<1>>, <<242>>}

\* uint64 heights: one and three decimal digits.
Heights == {0, 120}

\* cadence.Value arguments: an integer, and a value with no encoding.
CadenceInt(n) == [kind |-> "Int", value |-> n]

CadenceValues == {CadenceInt(7), [kind |-> "Unencodable"]}

ArgumentLists == SeqsUpTo(CadenceValues, MaxLen)

Scripts == {<<112, 117>>}

EventTypes == {"A.Deposit"}

IdentifierLists == SeqsUpTo(Identifiers, MaxLen)

\* flow.Transaction values: a script and its arguments.
Transactions ==
    {[Script |-> sc, Arguments |-> a] :
        sc \in Scripts, a \in SeqsUpTo(CadenceValues, 1)}

\* ---------------------------------------------- argument normalisation

SEALED_HEIGHT == <<"s", "e", "a", "l", "e", "d">>

FINALIZED_HEIGHT == <<"f", "i", "n", "a", "l", "i", "z", "e", "d">>

\* flow.Identifier.String(): the hex encoding of the identifier's bytes.
IdentifierString(id) == HexEncode(id)

\* flow.Address.String(): the hex encoding of the address's bytes.
AddressString(address) == HexEncode(address)

\* convert.SealedToHTTP: the height sentinel of a latest-block query.
SealedToHTTP(isSealed) == IF isSealed THEN SEALED_HEIGHT ELSE FINALIZED_HEIGHT

\* convert.ScriptToHTTP: the script's bytes as a string.
ScriptToHTTP(script) == HexEncode(script)

\* The encoding of one cadence value as a handler argument string.
CadenceEncodable(v) == v.kind = "Int"

CadenceEncode(v) == Sprintf_d(v.value)

\* convert.CadenceArgsToHTTP: every argument encoded, in order; the call
\* fails when some argument has no encoding.
CadenceArgsToHTTP(arguments) ==
    IF \A i \in 1..Len(arguments) : CadenceEncodable(arguments[i])
    THEN Return(MakeSlice([i \in 1..Len(arguments) |-> CadenceEncode(arguments[i])]),
                NoError)
    ELSE Return(Nil, ConvertError("CadenceArgsToHTTP"))

\* convert.TransactionToHTTP: the transaction's byte encoding (the script's
\* bytes, then the number of arguments); fails on an argument with no
\* encoding.
TransactionToHTTP(tx) ==
    IF \A i \in 1..Len(tx.Arguments) : CadenceEncodable(tx.Arguments[i])
    THEN Return([kind |-> "bytes", bytes |-> tx.Script \o <<Len(tx.Arguments)>>],
                NoError)
    ELSE Return(Nil, ConvertError("TransactionToHTTP"))

\* ------------------------------------------------------- wire records

\* models.Block: identifier and height as strings; the second has a
\* malformed height.
WireBlocks ==
    {[id |-> IdentifierString(<<171, 205>>), height |-> <<"1", "2", "0">>],
     [id |-> IdentifierString(<<0, 1>>), height |-> <<"x">>]}

\* models.Collection: the identifiers of its transactions.
WireCollections ==
    {[transactions |-> << >>],
     [transactions |-> <<IdentifierString(<<171, 205>>)>>]}

\* models.Account: the second has a malformed balance.
WireAccounts ==
    {[address |-> AddressString(<<1>>), balance |-> <<"1", "0", "0">>],
     [address |-> AddressString(<<242>>), balance |-> <<"-">>]}

\* models.Transaction with its Result part: the second has a malformed
\* script, the third a malformed result.
WireTransactions ==
    {[Script |-> <<"7", "0">>, Result |-> [Status |-> "Sealed"]],
     [Script |-> <<"z">>, Result |-> [Status |-> "Executed"]],
     [Script |-> <<"7", "5">>, Result |-> [Status |-> "?"]]}

\* The value string of a script execution: the second is malformed.
WireValues == {<<"4", "2">>, <<"v">>}

\* models.BlockEvents: the second has a malformed height.
WireBlockEvents == {[block_height |-> <<"1", "0">>], [block_height |-> <<"h">>]}

\* ---------------------------------------------------- result conversion

\* convert.HTTPToBlock: *flow.Block with its BlockHeader, or an error.
HTTPToBlock(b) ==
    IF IsHex(b.id) /\ IsDecimal(b.height)
    THEN Return([kind |-> "Block",
                 BlockHeader |-> [kind |-> "BlockHeader",
                                  ID |-> HexDecode(b.id),
                                  Height |-> ParseDecimal(b.height)]],
                NoError)
    ELSE Return(Nil, ConvertError("HTTPToBlock"))

\* convert.HTTPToCollection: *flow.Collection; it reports no error.
HTTPToCollection(collection) ==
    [kind |-> "Collection",
     TransactionIDs |-> [i \in 1..Len(collection.transactions) |->
                            HexDecode(collection.transactions[i])]]

\* convert.HTTPToTransaction: *flow.Transaction, or an error.
HTTPToTransaction(tx) ==
    IF IsHex(tx.Script)
    THEN Return([kind |-> "Transaction", Script |-> HexDecode(tx.Script)], NoError)
    ELSE Return(Nil, ConvertError("HTTPToTransaction"))

TransactionStatuses == {"Pending", "Finalized", "Executed", "Sealed", "Expired"}

\* convert.HTTPToTransactionResult: *flow.TransactionResult, or an error.
HTTPToTransactionResult(res) ==
    IF res.Status \in TransactionStatuses
    THEN Return([kind |-> "TransactionResult", Status |-> res.Status], NoError)
    ELSE Return(Nil, ConvertError("HTTPToTransactionResult"))

\* convert.HTTPToAccount: *flow.Account, or an error.
HTTPToAccount(account) ==
    IF IsHex(account.address) /\ IsDecimal(account.balance)
    THEN Return([kind |-> "Account",
                 Address |-> HexDecode(account.address),
                 Balance |-> ParseDecimal(account.balance)],
                NoError)
    ELSE Return(Nil, ConvertError("HTTPToAccount"))

\* convert.HTTPToCadenceValue: the cadence value of a result string, or an
\* error.
HTTPToCadenceValue(result) ==
    IF IsDecimal(result)
    THEN Return(CadenceInt(ParseDecimal(result)), NoError)
    ELSE Return(Nil, ConvertError("HTTPToCadenceValue"))

\* convert.HTTPToBlockEvents: []flow.BlockEvents in the order received, or
\* an error.
HTTPToBlockEvents(events) ==
    IF \A i \in 1..Len(events) : IsDecimal(events[i].block_height)
    THEN Return([kind |-> "BlockEvents",
                 elems |-> [i \in 1..Len(events) |->
                               [Height |-> ParseDecimal(events[i].block_height)]]],
                NoError)
    ELSE Return(Nil, ConvertError("HTTPToBlockEvents"))

\* --------------------------------------------------------------- state

\* The goroutines that call the one client.
Callers == {"g1", "g2"}

\* The handler implementations a client can be constructed with.
Handlers == {"h1", "h2"}

VARIABLES
    client,   \* the Client struct: its handler field
    pc,       \* per caller: "idle", "waiting" (inside the handler call),
              \* "returned", or "panicked"
    method,   \* per caller: the facade method of its current invocation
    args,     \* per caller: the arguments of that invocation
    trace,    \* per caller: the conversions and handler calls the invocation
              \* has performed, in program order
    reply,    \* per caller: what the handler returned to the invocation
    result,   \* per caller: how the invocation ended
    convertOnNil  \* what this build's convert.HTTPToTransaction does with a
                  \* nil *models.Transaction: "error" or "panic"

vars == <<client, pc, method, args, trace, reply, result, convertOnNil>>

NoArgs == [none |-> TRUE]

NoReply == [kind |-> "noreply"]

NoResult == [kind |-> "none"]

\* NewClient: a Client holding the provided handler.
NewClient(handler) == [handler |-> handler]

Init ==
    /\ client \in {NewClient(h) : h \in Handlers}
    /\ pc = [c \in Callers |-> "idle"]
    /\ method = [c \in Callers |-> "none"]
    /\ args = [c \in Callers |-> NoArgs]
    /\ trace = [c \in Callers |-> << >>]
    /\ reply = [c \in Callers |-> NoReply]
    /\ result = [c \in Callers |-> NoResult]
    /\ convertOnNil \in {"error", "panic"}

\* An unrecovered panic in any goroutine ends the whole program.
Crashed == \E c \in Callers : pc[c] = "panicked"

Ready(c) == ~Crashed /\ pc[c] = "idle"

Waiting(c, m) == ~Crashed /\ pc[c] = "waiting" /\ method[c] = m

\* ------------------------------------------------- steps of an invocation

\* A call of a conversion routine of package convert.
Conv(fn) == [step |-> "convert", fn |-> fn]

\* A call c.handler.op(ctx, params...): it goes to the handler the client
\* holds at the time of the call.
HandlerCall(op, params) ==
    [step |-> "handler", on |-> client.handler, op |-> op, params |-> params]

\* The part of a method up to its handler call: the steps performed, and
\* either the method is now inside the handler call or it has ended.
Blocks(steps) == [steps |-> steps, blocked |-> TRUE, out |-> NoResult]

Ends(steps, out) == [steps |-> steps, blocked |-> FALSE, out |-> out]

PcAfter(out) == IF out.kind = "panic" THEN "panicked" ELSE "returned"

\* Caller c invokes method m with arguments a; `head` is the method's part
\* up to the handler call.
Start(c, m, a, head) ==
    /\ pc' = [pc EXCEPT ![c] = IF head.blocked THEN "waiting" ELSE PcAfter(head.out)]
    /\ method' = [method EXCEPT ![c] = m]
    /\ args' = [args EXCEPT ![c] = a]
    /\ trace' = [trace EXCEPT ![c] = head.steps]
    /\ reply' = [reply EXCEPT ![c] = NoReply]
    /\ result' = [result EXCEPT ![c] = head.out]
    /\ UNCHANGED <<client, convertOnNil>>

\* The handler returns r to caller c's invocation; `tail` is the method's
\* part after the handler call.
Finish(c, r, tail) ==
    /\ pc' = [pc EXCEPT ![c] = PcAfter(tail.out)]
    /\ trace' = [trace EXCEPT ![c] = @ \o tail.steps]
    /\ reply' = [reply EXCEPT ![c] = r]
    /\ result' = [result EXCEPT ![c] = tail.out]
    /\ UNCHANGED <<client, method, args, convertOnNil>>

\* --------------------------------------------------- handler's replies

Failures(zero) == {[val |-> zero, err |-> e] : e \in HandlerErrors}

\* getBlockByID: (*models.Block, error)
BlockReplies == {[val |-> b, err |-> NoError] : b \in WireBlocks} \cup Failures(Nil)

\* getBlockByHeight: ([]*models.Block, error); the sequence may be empty,
\* or nil.
BlocksReplies ==
    {[val |-> MakeSlice(bs), err |-> NoError] : bs \in SeqsUpTo(WireBlocks, MaxLen)}
        \cup {[val |-> NilSlice, err |-> NoError]}
        \cup Failures(NilSlice)

\* getCollection: (*models.Collection, error)
CollectionReplies ==
    {[val |-> x, err |-> NoError] : x \in WireCollections} \cup Failures(Nil)

\* getAccount: (*models.Account, error)
AccountReplies ==
    {[val |-> x, err |-> NoError] : x \in WireAccounts} \cup Failures(Nil)

\* getTransaction: (*models.Transaction, error); the pointer may be nil
\* with no error.
TransactionReplies ==
    {[val |-> x, err |-> NoError] : x \in WireTransactions}
        \cup {[val |-> Nil, err |-> NoError]}
        \cup Failures(Nil)

\* sendTransaction: error
SendReplies == {[val |-> NoValue, err |-> NoError]} \cup Failures(NoValue)

\* executeScriptAtBlockHeight, executeScriptAtBlockID: (string, error)
ScriptReplies ==
    {[val |-> x, err |-> NoError] : x \in WireValues} \cup Failures(EmptyString)

\* getEvents: ([]models.BlockEvents, error)
EventsReplies ==
    {[val |-> MakeSlice(es), err |-> NoError] : es \in SeqsUpTo(WireBlockEvents, 1)}
        \cup Failures(NilSlice)

\* ------------------------------------------------------ facade methods
\* For a method M: M_request(arguments) is its code up to the handler call,
\* M_response(r) its code from the handler's return r on; the action M(c)
\* is caller c entering M, M_return(c) the handler returning to it.

\* Ping: panic("implement me").
Ping_request == Ends(<< >>, Panic("implement me"))

Ping(c) ==
    /\ Ready(c)
    /\ Start(c, "Ping", NoArgs, Ping_request)

\* GetBlockByID
GetBlockByID_request(blockID) ==
    Blocks(<<HandlerCall("getBlockByID", [ID |-> IdentifierString(blockID)])>>)

GetBlockByID_response(r) ==
    IF r.err # NoError THEN Ends(<< >>, Return(Nil, r.err))
    ELSE Ends(<<Conv("HTTPToBlock")>>, HTTPToBlock(r.val))

GetBlockByID(c) ==
    /\ Ready(c)
    /\ \E blockID \in Identifiers :
          Start(c, "GetBlockByID", [blockID |-> blockID], GetBlockByID_request(blockID))

GetBlockByID_return(c) ==
    /\ Waiting(c, "GetBlockByID")
    /\ \E r \in BlockReplies : Finish(c, r, GetBlockByID_response(r))

\* GetLatestBlock
GetLatestBlock_request(isSealed) ==
    Blocks(<<Conv("SealedToHTTP"),
             HandlerCall("getBlockByHeight", [height |-> SealedToHTTP(isSealed)])>>)

\* Variant of GetLatestBlock_response that takes the last block.
GetLatestBlock_response_last(r) ==
    IF r.err # NoError THEN Ends(<< >>, Return(Nil, r.err))
    ELSE IF Len(r.val.elems) = 0 THEN Ends(<< >>, Panic("index out of range"))
    ELSE Ends(<<Conv("HTTPToBlock")>>, HTTPToBlock(r.val.elems[Len(r.val.elems)]))

\* blocks[0] of an empty slice is a run-time panic.
GetLatestBlock_response(r) ==
    IF r.err # NoError THEN Ends(<< >>, Return(Nil, r.err))
    ELSE IF Len(r.val.elems) = 0 THEN Ends(<< >>, Panic("index out of range"))
    ELSE Ends(<<Conv("HTTPToBlock")>>, HTTPToBlock(r.val.elems[1]))

GetLatestBlock(c) ==
    /\ Ready(c)
    /\ \E isSealed \in BOOLEAN :
          Start(c, "GetLatestBlock", [isSealed |-> isSealed],
                GetLatestBlock_request(isSealed))

GetLatestBlock_return(c) ==
    /\ Waiting(c, "GetLatestBlock")
    /\ \E r \in BlocksReplies : Finish(c, r, GetLatestBlock_response(r))

\* GetBlockByHeight
GetBlockByHeight_request(height) ==
    Blocks(<<HandlerCall("getBlockByHeight", [height |-> Sprintf_d(height)])>>)

GetBlockByHeight_response(r) ==
    IF r.err # NoError THEN Ends(<< >>, Return(Nil, r.err))
    ELSE IF Len(r.val.elems) = 0 THEN Ends(<< >>, Panic("index out of range"))
    ELSE Ends(<<Conv("HTTPToBlock")>>, HTTPToBlock(r.val.elems[1]))

GetBlockByHeight(c) ==
    /\ Ready(c)
    /\ \E height \in Heights :
          Start(c, "GetBlockByHeight", [height |-> height],
                GetBlockByHeight_request(height))

GetBlockByHeight_return(c) ==
    /\ Waiting(c, "GetBlockByHeight")
    /\ \E r \in BlocksReplies : Finish(c, r, GetBlockByHeight_response(r))

\* The header variants call the block method and return &block.BlockHeader;
\* a panic of the block method passes through them.
HeaderOf(inner) ==
    IF inner.out.kind = "panic" THEN inner
    ELSE IF inner.out.err # NoError THEN Ends(inner.steps, Return(Nil, inner.out.err))
    ELSE Ends(inner.steps, Return(inner.out.val.BlockHeader, NoError))

\* GetLatestBlockHeader
GetLatestBlockHeader_request(isSealed) == GetLatestBlock_request(isSealed)

GetLatestBlockHeader_response(r) == HeaderOf(GetLatestBlock_response(r))

GetLatestBlockHeader(c) ==
    /\ Ready(c)
    /\ \E isSealed \in BOOLEAN :
          Start(c, "GetLatestBlockHeader", [isSealed |-> isSealed],
                GetLatestBlockHeader_request(isSealed))

GetLatestBlockHeader_return(c) ==
    /\ Waiting(c, "GetLatestBlockHeader")
    /\ \E r \in BlocksReplies : Finish(c, r, GetLatestBlockHeader_response(r))

\* GetBlockHeaderByID
GetBlockHeaderByID_request(blockID) == GetBlockByID_request(blockID)

GetBlockHeaderByID_response(r) == HeaderOf(GetBlockByID_response(r))

GetBlockHeaderByID(c) ==
    /\ Ready(c)
    /\ \E blockID \in Identifiers :
          Start(c, "GetBlockHeaderByID", [blockID |-> blockID],
                GetBlockHeaderByID_request(blockID))

GetBlockHeaderByID_return(c) ==
    /\ Waiting(c, "GetBlockHeaderByID")
    /\ \E r \in BlockReplies : Finish(c, r, GetBlockHeaderByID_response(r))

\* GetBlockHeaderByHeight
GetBlockHeaderByHeight_request(height) == GetBlockByHeight_request(height)

GetBlockHeaderByHeight_response(r) == HeaderOf(GetBlockByHeight_response(r))

GetBlockHeaderByHeight(c) ==
    /\ Ready(c)
    /\ \E height \in Heights :
          Start(c, "GetBlockHeaderByHeight", [height |-> height],
                GetBlockHeaderByHeight_request(height))

GetBlockHeaderByHeight_return(c) ==
    /\ Waiting(c, "GetBlockHeaderByHeight")
    /\ \E r \in BlocksReplies : Finish(c, r, GetBlockHeaderByHeight_response(r))

\* GetCollection
GetCollection_request(ID) ==
    Blocks(<<HandlerCall("getCollection", [ID |-> IdentifierString(ID)])>>)

GetCollection_response(r) ==
    IF r.err # NoError THEN Ends(<< >>, Return(Nil, r.err))
    ELSE Ends(<<Conv("HTTPToCollection")>>, Return(HTTPToCollection(r.val), NoError))

\* Variant of GetCollection that replaces the client's handler on entry.
GetCollection_rebinding(c) ==
    /\ Ready(c)
    /\ \E ID \in Identifiers, h \in Handlers :
          /\ pc' = [pc EXCEPT ![c] = "waiting"]
          /\ method' = [method EXCEPT ![c] = "GetCollection"]
          /\ args' = [args EXCEPT ![c] = [ID |-> ID]]
          /\ trace' = [trace EXCEPT ![c] = GetCollection_request(ID).steps]
          /\ reply' = [reply EXCEPT ![c] = NoReply]
          /\ result' = [result EXCEPT ![c] = NoResult]
          /\ client' = NewClient(h)
          /\ UNCHANGED convertOnNil

GetCollection(c) ==
    /\ Ready(c)
    /\ \E ID \in Identifiers :
          Start(c, "GetCollection", [ID |-> ID], GetCollection_request(ID))

GetCollection_return(c) ==
    /\ Waiting(c, "GetCollection")
    /\ \E r \in CollectionReplies : Finish(c, r, GetCollection_response(r))

\* SendTransaction
SendTransaction_request(tx) ==
    LET converted == TransactionToHTTP(tx) IN
    IF converted.err # NoError
    THEN Ends(<<Conv("TransactionToHTTP")>>, Return(NoValue, converted.err))
    ELSE Blocks(<<Conv("TransactionToHTTP"),
                  HandlerCall("sendTransaction", [transaction |-> converted.val])>>)

\* Variant of SendTransaction_response that drops the handler's error.
SendTransaction_response_swallowed(r) == Ends(<< >>, Return(NoValue, NoError))

SendTransaction_response(r) == Ends(<< >>, Return(NoValue, r.err))

SendTransaction(c) ==
    /\ Ready(c)
    /\ \E tx \in Transactions :
          Start(c, "SendTransaction", [tx |-> tx], SendTransaction_request(tx))

SendTransaction_return(c) ==
    /\ Waiting(c, "SendTransaction")
    /\ \E r \in SendReplies : Finish(c, r, SendTransaction_response(r))

\* GetTransaction
GetTransaction_request(ID) ==
    Blocks(<<HandlerCall("getTransaction",
                         [ID |-> IdentifierString(ID), includeResult |-> FALSE])>>)

\* convert.HTTPToTransaction(nil): the conversion reports an error, or it
\* dereferences the nil pointer, as this build does.
HTTPToTransactionOfNil ==
    IF convertOnNil = "panic" THEN Panic("nil pointer dereference")
    ELSE Return(Nil, ConvertError("HTTPToTransaction"))

GetTransaction_response(r) ==
    IF r.err # NoError THEN Ends(<< >>, Return(Nil, r.err))
    ELSE IF r.val = Nil THEN Ends(<<Conv("HTTPToTransaction")>>, HTTPToTransactionOfNil)
    ELSE Ends(<<Conv("HTTPToTransaction")>>, HTTPToTransaction(r.val))

GetTransaction(c) ==
    /\ Ready(c)
    /\ \E ID \in Identifiers :
          Start(c, "GetTransaction", [ID |-> ID], GetTransaction_request(ID))

GetTransaction_return(c) ==
    /\ Waiting(c, "GetTransaction")
    /\ \E r \in TransactionReplies : Finish(c, r, GetTransaction_response(r))

\* GetTransactionResult
\* Variant of GetTransactionResult_request that does not ask for the result.
GetTransactionResult_request_noResult(ID) ==
    Blocks(<<HandlerCall("getTransaction",
                         [ID |-> IdentifierString(ID), includeResult |-> FALSE])>>)

GetTransactionResult_request(ID) ==
    Blocks(<<HandlerCall("getTransaction",
                         [ID |-> IdentifierString(ID), includeResult |-> TRUE])>>)

\* tx.Result through a nil tx is a run-time panic.
GetTransactionResult_response(r) ==
    IF r.err # NoError THEN Ends(<< >>, Return(Nil, r.err))
    ELSE IF r.val = Nil THEN Ends(<< >>, Panic("nil pointer dereference"))
    ELSE Ends(<<Conv("HTTPToTransactionResult")>>, HTTPToTransactionResult(r.val.Result))

GetTransactionResult(c) ==
    /\ Ready(c)
    /\ \E ID \in Identifiers :
          Start(c, "GetTransactionResult", [ID |-> ID], GetTransactionResult_request(ID))

GetTransactionResult_return(c) ==
    /\ Waiting(c, "GetTransactionResult")
    /\ \E r \in TransactionReplies : Finish(c, r, GetTransactionResult_response(r))

\* GetAccount
GetAccount_request(address) ==
    Blocks(<<HandlerCall("getAccount",
                         [address |-> AddressString(address), height |-> SEALED_HEIGHT])>>)

\* Variant of GetAccount_response that wraps the handler's error.
GetAccount_response_wrapped(r) ==
    IF r.err # NoError THEN Ends(<< >>, Return(Nil, [kind |-> "wrapped", cause |-> r.err]))
    ELSE Ends(<<Conv("HTTPToAccount")>>, HTTPToAccount(r.val))

GetAccount_response(r) ==
    IF r.err # NoError THEN Ends(<< >>, Return(Nil, r.err))
    ELSE Ends(<<Conv("HTTPToAccount")>>, HTTPToAccount(r.val))

GetAccount(c) ==
    /\ Ready(c)
    /\ \E address \in Addresses :
          Start(c, "GetAccount", [address |-> address], GetAccount_request(address))

GetAccount_return(c) ==
    /\ Waiting(c, "GetAccount")
    /\ \E r \in AccountReplies : Finish(c, r, GetAccount_response(r))

\* GetAccountAtLatestBlock: return c.GetAccount(ctx, address)
\* Variant of GetAccountAtLatestBlock_request that calls the handler itself
\* and then delegates to GetAccount as well.
GetAccountAtLatestBlock_request_twice(address) ==
    Blocks(<<HandlerCall("getAccount",
                         [address |-> AddressString(address), height |-> SEALED_HEIGHT])>>
           \o GetAccount_request(address).steps)

GetAccountAtLatestBlock_request(address) == GetAccount_request(address)

GetAccountAtLatestBlock_response(r) == GetAccount_response(r)

GetAccountAtLatestBlock(c) ==
    /\ Ready(c)
    /\ \E address \in Addresses :
          Start(c, "GetAccountAtLatestBlock", [address |-> address],
                GetAccountAtLatestBlock_request(address))

GetAccountAtLatestBlock_return(c) ==
    /\ Waiting(c, "GetAccountAtLatestBlock")
    /\ \E r \in AccountReplies : Finish(c, r, GetAccountAtLatestBlock_response(r))

\* GetAccountAtBlockHeight
GetAccountAtBlockHeight_request(address, blockHeight) ==
    Blocks(<<HandlerCall("getAccount",
                         [address |-> AddressString(address),
                          height |-> Sprintf_d(blockHeight)])>>)

GetAccountAtBlockHeight_response(r) ==
    IF r.err # NoError THEN Ends(<< >>, Return(Nil, r.err))
    ELSE Ends(<<Conv("HTTPToAccount")>>, HTTPToAccount(r.val))

GetAccountAtBlockHeight(c) ==
    /\ Ready(c)
    /\ \E address \in Addresses, blockHeight \in Heights :
          Start(c, "GetAccountAtBlockHeight",
                [address |-> address, blockHeight |-> blockHeight],
                GetAccountAtBlockHeight_request(address, blockHeight))

GetAccountAtBlockHeight_return(c) ==
    /\ Waiting(c, "GetAccountAtBlockHeight")
    /\ \E r \in AccountReplies : Finish(c, r, GetAccountAtBlockHeight_response(r))

\* ExecuteScriptAtLatestBlock
ExecuteScriptAtLatestBlock_request(script, arguments) ==
    LET encoded == CadenceArgsToHTTP(arguments) IN
    IF encoded.err # NoError
    THEN Ends(<<Conv("CadenceArgsToHTTP")>>, Return(Nil, encoded.err))
    ELSE Blocks(<<Conv("CadenceArgsToHTTP"), Conv("ScriptToHTTP"),
                  HandlerCall("executeScriptAtBlockHeight",
                              [height |-> SEALED_HEIGHT,
                               script |-> ScriptToHTTP(script),
                               arguments |-> encoded.val])>>)

ExecuteScriptAtLatestBlock_response(r) ==
    IF r.err # NoError THEN Ends(<< >>, Return(Nil, r.err))
    ELSE Ends(<<Conv("HTTPToCadenceValue")>>, HTTPToCadenceValue(r.val))

ExecuteScriptAtLatestBlock(c) ==
    /\ Ready(c)
    /\ \E script \in Scripts, arguments \in ArgumentLists :
          Start(c, "ExecuteScriptAtLatestBlock",
                [script |-> script, arguments |-> arguments],
                ExecuteScriptAtLatestBlock_request(script, arguments))

ExecuteScriptAtLatestBlock_return(c) ==
    /\ Waiting(c, "ExecuteScriptAtLatestBlock")
    /\ \E r \in ScriptReplies : Finish(c, r, ExecuteScriptAtLatestBlock_response(r))

\* Variant of ExecuteScriptAtBlockID_request without the error check after
\* the encoding.
ExecuteScriptAtBlockID_request_unchecked(blockID, script, arguments) ==
    LET encoded == CadenceArgsToHTTP(arguments) IN
    Blocks(<<Conv("CadenceArgsToHTTP"), Conv("ScriptToHTTP"),
             HandlerCall("executeScriptAtBlockID",
                         [ID |-> IdentifierString(blockID),
                          script |-> ScriptToHTTP(script),
                          arguments |-> encoded.val])>>)

\* ExecuteScriptAtBlockID
ExecuteScriptAtBlockID_request(blockID, script, arguments) ==
    LET encoded == CadenceArgsToHTTP(arguments) IN
    IF encoded.err # NoError
    THEN Ends(<<Conv("CadenceArgsToHTTP")>>, Return(Nil, encoded.err))
    ELSE Blocks(<<Conv("CadenceArgsToHTTP"), Conv("ScriptToHTTP"),
                  HandlerCall("executeScriptAtBlockID",
                              [ID |-> IdentifierString(blockID),
                               script |-> ScriptToHTTP(script),
                               arguments |-> encoded.val])>>)

ExecuteScriptAtBlockID_response(r) ==
    IF r.err # NoError THEN Ends(<< >>, Return(Nil, r.err))
    ELSE Ends(<<Conv("HTTPToCadenceValue")>>, HTTPToCadenceValue(r.val))

ExecuteScriptAtBlockID(c) ==
    /\ Ready(c)
    /\ \E blockID \in Identifiers, script \in Scripts, arguments \in ArgumentLists :
          Start(c, "ExecuteScriptAtBlockID",
                [blockID |-> blockID, script |-> script, arguments |-> arguments],
                ExecuteScriptAtBlockID_request(blockID, script, arguments))

ExecuteScriptAtBlockID_return(c) ==
    /\ Waiting(c, "ExecuteScriptAtBlockID")
    /\ \E r \in ScriptReplies : Finish(c, r, ExecuteScriptAtBlockID_response(r))

\* ExecuteScriptAtBlockHeight
ExecuteScriptAtBlockHeight_request(height, script, arguments) ==
    LET encoded == CadenceArgsToHTTP(arguments) IN
    IF encoded.err # NoError
    THEN Ends(<<Conv("CadenceArgsToHTTP")>>, Return(Nil, encoded.err))
    ELSE Blocks(<<Conv("CadenceArgsToHTTP"), Conv("ScriptToHTTP"),
                  HandlerCall("executeScriptAtBlockHeight",
                              [height |-> Sprintf_d(height),
                               script |-> ScriptToHTTP(script),
                               arguments |-> encoded.val])>>)

ExecuteScriptAtBlockHeight_response(r) ==
    IF r.err # NoError THEN Ends(<< >>, Return(Nil, r.err))
    ELSE Ends(<<Conv("HTTPToCadenceValue")>>, HTTPToCadenceValue(r.val))

ExecuteScriptAtBlockHeight(c) ==
    /\ Ready(c)
    /\ \E height \in Heights, script \in Scripts, arguments \in ArgumentLists :
          Start(c, "ExecuteScriptAtBlockHeight",
                [height |-> height, script |-> script, arguments |-> arguments],
                ExecuteScriptAtBlockHeight_request(height, script, arguments))

ExecuteScriptAtBlockHeight_return(c) ==
    /\ Waiting(c, "ExecuteScriptAtBlockHeight")
    /\ \E r \in ScriptReplies : Finish(c, r, ExecuteScriptAtBlockHeight_response(r))

\* GetEventsForHeightRange
GetEventsForHeightRange_request(eventType, startHeight, endHeight) ==
    Blocks(<<HandlerCall("getEvents",
                         [eventType |-> eventType,
                          start |-> Sprintf_d(startHeight),
                          end |-> Sprintf_d(endHeight),
                          blockIDs |-> NilSlice])>>)

GetEventsForHeightRange_response(r) ==
    IF r.err # NoError THEN Ends(<< >>, Return(Nil, r.err))
    ELSE Ends(<<Conv("HTTPToBlockEvents")>>, HTTPToBlockEvents(r.val.elems))

GetEventsForHeightRange(c) ==
    /\ Ready(c)
    /\ \E eventType \in EventTypes, startHeight \in Heights, endHeight \in Heights :
          Start(c, "GetEventsForHeightRange",
                [eventType |-> eventType, startHeight |-> startHeight,
                 endHeight |-> endHeight],
                GetEventsForHeightRange_request(eventType, startHeight, endHeight))

GetEventsForHeightRange_return(c) ==
    /\ Waiting(c, "GetEventsForHeightRange")
    /\ \E r \in EventsReplies : Finish(c, r, GetEventsForHeightRange_response(r))

\* Variant of GetEventsForBlockIDs_request that formats zero height bounds
\* instead of leaving them empty.
GetEventsForBlockIDs_request_withHeights(eventType, blockIDs) ==
    LET ids == MakeSlice([i \in 1..Len(blockIDs) |-> IdentifierString(blockIDs[i])]) IN
    Blocks(<<HandlerCall("getEvents",
                         [eventType |-> eventType,
                          start |-> Sprintf_d(0),
                          end |-> Sprintf_d(0),
                          blockIDs |-> ids])>>)

\* GetEventsForBlockIDs: ids[i] = id.String() for every i, in order.
GetEventsForBlockIDs_request(eventType, blockIDs) ==
    LET ids == MakeSlice([i \in 1..Len(blockIDs) |-> IdentifierString(blockIDs[i])]) IN
    Blocks(<<HandlerCall("getEvents",
                         [eventType |-> eventType,
                          start |-> EmptyString,
                          end |-> EmptyString,
                          blockIDs |-> ids])>>)

GetEventsForBlockIDs_response(r) ==
    IF r.err # NoError THEN Ends(<< >>, Return(Nil, r.err))
    ELSE Ends(<<Conv("HTTPToBlockEvents")>>, HTTPToBlockEvents(r.val.elems))

GetEventsForBlockIDs(c) ==
    /\ Ready(c)
    /\ \E eventType \in EventTypes, blockIDs \in IdentifierLists :
          Start(c, "GetEventsForBlockIDs",
                [eventType |-> eventType, blockIDs |-> blockIDs],
                GetEventsForBlockIDs_request(eventType, blockIDs))

GetEventsForBlockIDs_return(c) ==
    /\ Waiting(c, "GetEventsForBlockIDs")
    /\ \E r \in EventsReplies : Finish(c, r, GetEventsForBlockIDs_response(r))

\* GetLatestProtocolStateSnapshot: panic("implement me").
GetLatestProtocolStateSnapshot_request == Ends(<< >>, Panic("implement me"))

GetLatestProtocolStateSnapshot(c) ==
    /\ Ready(c)
    /\ Start(c, "GetLatestProtocolStateSnapshot", NoArgs,
             GetLatestProtocolStateSnapshot_request)

\* GetExecutionResultForBlockID: panic("implement me").
GetExecutionResultForBlockID_request(blockID) == Ends(<< >>, Panic("implement me"))

GetExecutionResultForBlockID(c) ==
    /\ Ready(c)
    /\ \E blockID \in Identifiers :
          Start(c, "GetExecutionResultForBlockID", [blockID |-> blockID],
                GetExecutionResultForBlockID_request(blockID))

\* The caller has taken the result of its invocation; it may call again.
Returned(c) ==
    /\ ~Crashed
    /\ pc[c] = "returned"
    /\ pc' = [pc EXCEPT ![c] = "idle"]
    /\ method' = [method EXCEPT ![c] = "none"]
    /\ args' = [args EXCEPT ![c] = NoArgs]
    /\ trace' = [trace EXCEPT ![c] = << >>]
    /\ reply' = [reply EXCEPT ![c] = NoReply]
    /\ result' = [result EXCEPT ![c] = NoResult]
    /\ UNCHANGED <<client, convertOnNil>>

\* ------------------------------------------------------- specification

Next ==
    \E c \in Callers :
        \/ Ping(c)
        \/ GetBlockByID(c) \/ GetBlockByID_return(c)
        \/ GetLatestBlockHeader(c) \/ GetLatestBlockHeader_return(c)
        \/ GetBlockHeaderByID(c) \/ GetBlockHeaderByID_return(c)
        \/ GetBlockHeaderByHeight(c) \/ GetBlockHeaderByHeight_return(c)
        \/ GetLatestBlock(c) \/ GetLatestBlock_return(c)
        \/ GetBlockByHeight(c) \/ GetBlockByHeight_return(c)
        \/ GetCollection(c) \/ GetCollection_return(c)
        \/ SendTransaction(c) \/ SendTransaction_return(c)
        \/ GetTransaction(c) \/ GetTransaction_return(c)
        \/ GetTransactionResult(c) \/ GetTransactionResult_return(c)
        \/ GetAccount(c) \/ GetAccount_return(c)
        \/ GetAccountAtLatestBlock(c) \/ GetAccountAtLatestBlock_return(c)
        \/ GetAccountAtBlockHeight(c) \/ GetAccountAtBlockHeight_return(c)
        \/ ExecuteScriptAtLatestBlock(c) \/ ExecuteScriptAtLatestBlock_return(c)
        \/ ExecuteScriptAtBlockID(c) \/ ExecuteScriptAtBlockID_return(c)
        \/ ExecuteScriptAtBlockHeight(c) \/ ExecuteScriptAtBlockHeight_return(c)
        \/ GetEventsForHeightRange(c) \/ GetEventsForHeightRange_return(c)
        \/ GetEventsForBlockIDs(c) \/ GetEventsForBlockIDs_return(c)
        \/ GetLatestProtocolStateSnapshot(c)
        \/ GetExecutionResultForBlockID(c)
        \/ Returned(c)

Spec == Init /\ [][Next]_vars

\* ------------------------------------------------------------- claims

\* The handler calls caller c's current invocation has made, in order.
HandlerCalls(c) == SelectSeq(trace[c], LAMBDA e : e.step = "handler")

\* The invocation is over: it returned or panicked.
Ended(c) == pc[c] \in {"returned", "panicked"}

\* The handler has answered c's invocation.
Replied(c) == Ended(c) /\ reply[c] # NoReply

\* s is the decimal string of n: digits only, no leading zero, value n.
IsDecimalOf(s, n) ==
    /\ IsDecimal(s)
    /\ (Len(s) > 1 => s[1] # "0")
    /\ ParseDecimal(s) = n

\* s is the string encoding of identifier id.
IsStringOf(s, id) == IsHex(s) /\ HexDecode(s) = id

ByHeightMethods ==
    {"GetLatestBlock", "GetBlockByHeight", "GetLatestBlockHeader", "GetBlockHeaderByHeight"}

UnimplementedMethods ==
    {"Ping", "GetLatestProtocolStateSnapshot", "GetExecutionResultForBlockID"}

ScriptMethods ==
    {"ExecuteScriptAtLatestBlock", "ExecuteScriptAtBlockID", "ExecuteScriptAtBlockHeight"}

QueryMethods ==
    ByHeightMethods \cup ScriptMethods \cup
    {"GetBlockByID", "GetBlockHeaderByID", "GetCollection", "GetTransaction",
     "GetTransactionResult", "GetAccount", "GetAccountAtLatestBlock",
     "GetAccountAtBlockHeight", "GetEventsForHeightRange", "GetEventsForBlockIDs"}

ImplementedMethods == QueryMethods \cup {"SendTransaction"}

\* C1: when getBlockByHeight returns an empty sequence and no error, the
\* by-height block and header methods return a not-found error to the
\* caller; they never panic.
C1_EmptySequenceIsNotFound ==
    \A c \in Callers :
        (/\ method[c] \in ByHeightMethods
         /\ Replied(c)
         /\ reply[c].err = NoError
         /\ Len(reply[c].val.elems) = 0)
        => (/\ pc[c] = "returned"
            /\ result[c].val = Nil
            /\ result[c].err.kind = "notfound")

\* C2: Ping, GetLatestProtocolStateSnapshot and GetExecutionResultForBlockID
\* return a not-implemented failure as an error value; they neither panic
\* nor return a default value, and they make no handler call.
C2_NotImplementedIsReturned ==
    \A c \in Callers :
        method[c] \in UnimplementedMethods
        => (/\ pc[c] = "returned"
            /\ result[c].err.kind = "notimplemented"
            /\ HandlerCalls(c) = << >>)

\* C3: in the three script methods the argument list is encoded before any
\* handler call; when some argument has no encoding, the invocation makes
\* no handler call and returns nil with the conversion error; otherwise the
\* handler call carries the encoded arguments.
C3_EncodingPrecedesHandlerCall ==
    \A c \in Callers :
        method[c] \in ScriptMethods
        => LET arguments == args[c].arguments
               failing == \E i \in 1..Len(arguments) : ~CadenceEncodable(arguments[i])
           IN  /\ Len(trace[c]) >= 1
               /\ trace[c][1] = Conv("CadenceArgsToHTTP")
               /\ failing =>
                     /\ HandlerCalls(c) = << >>
                     /\ pc[c] = "returned"
                     /\ result[c] = Return(Nil, ConvertError("CadenceArgsToHTTP"))
               /\ ~failing =>
                     /\ Len(HandlerCalls(c)) = 1
                     /\ HandlerCalls(c)[1].op \in
                            {"executeScriptAtBlockHeight", "executeScriptAtBlockID"}
                     /\ LET sent == HandlerCalls(c)[1].params.arguments.elems
                        IN  /\ Len(sent) = Len(arguments)
                            /\ \A i \in 1..Len(sent) :
                                  IsDecimalOf(sent[i], arguments[i].value)

\* C3 witness: a script call at a height whose second argument has no
\* encoding returned without a handler call.
C3_Witness ==
    \E c \in Callers :
        /\ method[c] = "ExecuteScriptAtBlockHeight"
        /\ pc[c] = "returned"
        /\ Len(args[c].arguments) = 2
        /\ CadenceEncodable(args[c].arguments[1])
        /\ ~CadenceEncodable(args[c].arguments[2])
        /\ HandlerCalls(c) = << >>
        /\ result[c].err = ConvertError("CadenceArgsToHTTP")

\* C4: SendTransaction with a transaction that encodes calls sendTransaction
\* exactly once with the byte encoding and returns exactly the handler's
\* error (nil on success); with one that does not encode it returns the
\* encoding error and sendTransaction is never called.
C4_SendTransaction ==
    \A c \in Callers :
        method[c] = "SendTransaction"
        => LET tx == args[c].tx
               malformed == \E i \in 1..Len(tx.Arguments) :
                               ~CadenceEncodable(tx.Arguments[i])
           IN  /\ pc[c] # "panicked"
               /\ malformed =>
                     /\ HandlerCalls(c) = << >>
                     /\ pc[c] = "returned"
                     /\ result[c] = Return(NoValue, ConvertError("TransactionToHTTP"))
               /\ ~malformed =>
                     /\ Len(HandlerCalls(c)) = 1
                     /\ HandlerCalls(c)[1].op = "sendTransaction"
                     /\ HandlerCalls(c)[1].on = client.handler
                     /\ HandlerCalls(c)[1].params.transaction = TransactionToHTTP(tx).val
                     /\ pc[c] = "returned" => result[c] = Return(NoValue, reply[c].err)

\* C4 witness: a SendTransaction whose handler call failed returned the
\* handler's error.
C4_Witness ==
    \E c \in Callers :
        /\ method[c] = "SendTransaction"
        /\ pc[c] = "returned"
        /\ Len(HandlerCalls(c)) = 1
        /\ reply[c].err \in HandlerErrors
        /\ result[c].err = reply[c].err

\* C5: GetLatestBlock calls getBlockByHeight with "sealed" when isSealed and
\* "finalized" otherwise, GetBlockByHeight(h) with the decimal string of h;
\* for every non-empty sequence the handler returns, the result is the
\* conversion of its first element.
C5_FirstBlockOfSentinelQuery ==
    \A c \in Callers :
        method[c] \in {"GetLatestBlock", "GetBlockByHeight"}
        => /\ Len(HandlerCalls(c)) = 1
           /\ HandlerCalls(c)[1].op = "getBlockByHeight"
           /\ LET height == HandlerCalls(c)[1].params.height
              IN  IF method[c] = "GetLatestBlock"
                  THEN height = (IF args[c].isSealed
                                 THEN <<"s", "e", "a", "l", "e", "d">>
                                 ELSE <<"f", "i", "n", "a", "l", "i", "z", "e", "d">>)
                  ELSE IsDecimalOf(height, args[c].height)
           /\ (Replied(c) /\ reply[c].err = NoError /\ Len(reply[c].val.elems) > 0)
                => (/\ pc[c] = "returned"
                    /\ result[c] = HTTPToBlock(reply[c].val.elems[1]))

\* C5 witness: a GetLatestBlock for the finalized block whose handler
\* returned two different candidates returned the first one's conversion,
\* which is not the second one's.
C5_Witness ==
    \E c \in Callers :
        /\ method[c] = "GetLatestBlock"
        /\ ~args[c].isSealed
        /\ pc[c] = "returned"
        /\ reply[c].err = NoError
        /\ Len(reply[c].val.elems) = 2
        /\ result[c] = HTTPToBlock(reply[c].val.elems[1])
        /\ result[c] # HTTPToBlock(reply[c].val.elems[2])
        /\ result[c].err = NoError

\* C6: every getEvents call of GetEventsForHeightRange carries the decimal
\* strings of the two heights and a nil identifier set; every getEvents
\* call of GetEventsForBlockIDs carries empty start and end strings and the
\* string encodings of the identifiers, in order; no getEvents call carries
\* both a height bound and a non-empty identifier set.
C6_EventFilterModesExclusive ==
    \A c \in Callers :
        \A k \in 1..Len(HandlerCalls(c)) :
            LET call == HandlerCalls(c)[k] IN
            call.op = "getEvents"
            => /\ method[c] \in {"GetEventsForHeightRange", "GetEventsForBlockIDs"}
               /\ method[c] = "GetEventsForHeightRange" =>
                     /\ IsDecimalOf(call.params.start, args[c].startHeight)
                     /\ IsDecimalOf(call.params.end, args[c].endHeight)
                     /\ call.params.blockIDs.isNil
                     /\ Len(call.params.blockIDs.elems) = 0
               /\ method[c] = "GetEventsForBlockIDs" =>
                     /\ call.params.start = << >>
                     /\ call.params.end = << >>
                     /\ Len(call.params.blockIDs.elems) = Len(args[c].blockIDs)
                     /\ \A i \in 1..Len(args[c].blockIDs) :
                           IsStringOf(call.params.blockIDs.elems[i], args[c].blockIDs[i])
               /\ ~(/\ Len(call.params.start) + Len(call.params.end) > 0
                     /\ Len(call.params.blockIDs.elems) > 0)

\* C6 witness: a GetEventsForBlockIDs with two different identifiers is
\* inside its getEvents call.
C6_Witness ==
    \E c \in Callers :
        /\ method[c] = "GetEventsForBlockIDs"
        /\ pc[c] = "waiting"
        /\ Len(args[c].blockIDs) = 2
        /\ args[c].blockIDs[1] # args[c].blockIDs[2]
        /\ Len(HandlerCalls(c)) = 1
        /\ Len(HandlerCalls(c)[1].params.blockIDs.elems) = 2

\* C7: when the handler call of a query method returns an error, the method
\* returns nil and exactly that error, and performs no result conversion;
\* no query returns a non-nil result together with a handler error.
C7_HandlerErrorVerbatim ==
    \A c \in Callers :
        (method[c] \in QueryMethods /\ Ended(c))
        => /\ (Replied(c) /\ reply[c].err # NoError)
                => (/\ pc[c] = "returned"
                    /\ result[c] = Return(Nil, reply[c].err)
                    /\ trace[c][Len(trace[c])].step = "handler")
           /\ pc[c] = "returned"
                => ~(result[c].val # Nil /\ result[c].err \in HandlerErrors)

\* C7 witness: a GetBlockHeaderByHeight whose handler call failed to decode
\* returned nil and that error.
C7_Witness ==
    \E c \in Callers :
        /\ method[c] = "GetBlockHeaderByHeight"
        /\ pc[c] = "returned"
        /\ reply[c].err = [kind |-> "handler", code |-> "decode"]
        /\ result[c] = Return(Nil, reply[c].err)

\* Whether the pre-call encoding of c's invocation fails: an argument of a
\* script method, or of the transaction sent, has no encoding.
EncodingFails(c) ==
    \/ /\ method[c] \in ScriptMethods
       /\ \E i \in 1..Len(args[c].arguments) : ~CadenceEncodable(args[c].arguments[i])
    \/ /\ method[c] = "SendTransaction"
       /\ \E i \in 1..Len(args[c].tx.Arguments) :
             ~CadenceEncodable(args[c].tx.Arguments[i])

\* C8: an invocation of an implemented facade method makes exactly one
\* handler call, and none exactly when its pre-call encoding fails; never
\* two or more, whether the handler succeeds or fails.
C8_ExactlyOneHandlerCall ==
    \A c \in Callers :
        method[c] \in ImplementedMethods
        => /\ Len(HandlerCalls(c)) <= 1
           /\ Len(HandlerCalls(c)) = 0 <=> EncodingFails(c)

\* C8 witness: a GetAccountAtLatestBlock, which delegates to GetAccount,
\* ended after a failed handler call, having made one call.
C8_Witness ==
    \E c \in Callers :
        /\ method[c] = "GetAccountAtLatestBlock"
        /\ pc[c] = "returned"
        /\ reply[c].err \in HandlerErrors
        /\ Len(HandlerCalls(c)) = 1

\* The conversion routines c's invocation has called, in order.
Conversions(c) ==
    [i \in 1..Len(SelectSeq(trace[c], LAMBDA e : e.step = "convert")) |->
        SelectSeq(trace[c], LAMBDA e : e.step = "convert")[i].fn]

\* C9: GetTransaction(id) and GetTransactionResult(id) make the same
\* getTransaction call with id's string encoding, with include-result
\* false and true; of a wire transaction the handler returns, GetTransaction
\* converts the whole, GetTransactionResult only its Result part; neither
\* ever calls the other's conversion, and on a nil transaction with no error
\* GetTransactionResult converts nothing (tx.Result panics) while
\* GetTransaction hands the nil pointer to its conversion.
C9_TransactionAndResult ==
    \A c \in Callers :
        method[c] \in {"GetTransaction", "GetTransactionResult"}
        => /\ Len(HandlerCalls(c)) = 1
           /\ HandlerCalls(c)[1].op = "getTransaction"
           /\ IsStringOf(HandlerCalls(c)[1].params.ID, args[c].ID)
           /\ HandlerCalls(c)[1].params.includeResult
                 = (method[c] = "GetTransactionResult")
           /\ (Replied(c) /\ reply[c].err = NoError /\ reply[c].val # Nil)
                => /\ pc[c] = "returned"
                   /\ method[c] = "GetTransaction" =>
                         /\ result[c] = HTTPToTransaction(reply[c].val)
                         /\ Conversions(c) = <<"HTTPToTransaction">>
                   /\ method[c] = "GetTransactionResult" =>
                         /\ result[c] = HTTPToTransactionResult(reply[c].val.Result)
                         /\ Conversions(c) = <<"HTTPToTransactionResult">>
           /\ (Replied(c) /\ reply[c].err = NoError /\ reply[c].val = Nil)
                => /\ method[c] = "GetTransaction" =>
                         Conversions(c) = <<"HTTPToTransaction">>
                   /\ method[c] = "GetTransactionResult" =>
                         (pc[c] = "panicked" /\ Conversions(c) = << >>)
           /\ (~Replied(c) \/ reply[c].err # NoError) => Conversions(c) = << >>

\* C9 witness: a GetTransactionResult succeeded on a wire transaction whose
\* script is malformed, and a concurrent GetTransaction of the same
\* identifier failed on it.
C9_Witness ==
    \E c, d \in Callers :
        /\ method[c] = "GetTransactionResult"
        /\ method[d] = "GetTransaction"
        /\ args[c].ID = args[d].ID
        /\ pc[c] = "returned" /\ pc[d] = "returned"
        /\ reply[c] = reply[d]
        /\ reply[c].err = NoError
        /\ result[c].err = NoError
        /\ result[c].val.kind = "TransactionResult"
        /\ result[d].err = ConvertError("HTTPToTransaction")

\* What caller c's invocation is and has done.
Invocation(c) == <<pc[c], method[c], args[c], trace[c], reply[c], result[c]>>

\* C10: no step reassigns the client's handler; a step changes the
\* invocation of one caller only; and two invocations of the same method
\* with the same arguments and the same handler reply have made the same
\* handler calls and ended the same way, whatever the other callers did.
C10_NoSharedMutableState ==
    [][/\ client' = client
       /\ \A c, d \in Callers :
             (c # d /\ Invocation(c)' # Invocation(c)) => Invocation(d)' = Invocation(d)
       /\ \A c, d \in Callers :
             (/\ method'[c] = method'[d]
              /\ args'[c] = args'[d]
              /\ pc'[c] = pc'[d]
              /\ reply'[c] = reply'[d])
             => (trace'[c] = trace'[d] /\ result'[c] = result'[d])
       /\ \A c \in Callers :
             \A k \in 1..Len(HandlerCalls(c)') : HandlerCalls(c)'[k].on = client.handler]_vars

\* C10 witness: two callers are inside handler calls of different methods
\* on the one client at the same time.
C10_Witness ==
    /\ pc["g1"] = "waiting"
    /\ pc["g2"] = "waiting"
    /\ method["g1"] = "GetAccountAtBlockHeight"
    /\ method["g2"] = "ExecuteScriptAtBlockID"
    /\ HandlerCalls("g1")[1].on = client.handler
    /\ HandlerCalls("g2")[1].on = client.handler

====
